---- MODULE Spec2Model ----
(***************************************************************************)
(* Model of the stl-java helper scripts:                                   *)
(*   src/test/resources/convert-frame.py  (the series normalizer)          *)
(*   src/main/resources/plot-series.py    (the rendering consumer)         *)
(*                                                                         *)
(* Text is modelled as sequences of one-character strings, so that         *)
(* splitting, int(), float(), str.format() and strptime() are computed     *)
(* character by character, as the Python library computes them.            *)
(***************************************************************************)
EXTENDS Integers, Sequences, FiniteSets, TLC

\* ------------------------------------------------------------------------
\* Bounds of the model
\* ------------------------------------------------------------------------
MaxRows == 3

\* ------------------------------------------------------------------------
\* Characters
\* ------------------------------------------------------------------------
DigitChars == <<"0", "1", "2", "3", "4", "5", "6", "7", "8", "9">>

Digits == {DigitChars[k] : k \in 1..10}

DigitVal(c) == (CHOOSE k \in 1..10 : DigitChars[k] = c) - 1

\* the characters matched by \s and removed by str.rstrip()
Whitespace == {" ", "\t", "\n", "\r"}

\* ------------------------------------------------------------------------
\* line.rstrip()
\* ------------------------------------------------------------------------
RECURSIVE RStrip(_)
RStrip(s) ==
    IF s = <<>> THEN s
    ELSE IF s[Len(s)] \in Whitespace THEN RStrip(SubSeq(s, 1, Len(s) - 1))
    ELSE s

\* ------------------------------------------------------------------------
\* re.split('\s+', s): a token ends at the first character of every run of
\* whitespace; a leading run yields an empty first token, the empty string
\* yields the single empty token.
\* ------------------------------------------------------------------------
RECURSIVE SplitFrom(_, _, _, _)
SplitFrom(s, pos, cur, acc) ==
    IF pos > Len(s) THEN Append(acc, cur)
    ELSE IF s[pos] \in Whitespace
         THEN IF pos > 1 /\ s[pos - 1] \in Whitespace
              THEN SplitFrom(s, pos + 1, cur, acc)
              ELSE SplitFrom(s, pos + 1, <<>>, Append(acc, cur))
         ELSE SplitFrom(s, pos + 1, Append(cur, s[pos]), acc)

Split(s) == SplitFrom(s, 1, <<>>, <<>>)

\* ------------------------------------------------------------------------
\* int(token): optional sign, then one or more decimal digits.
\* ------------------------------------------------------------------------
RECURSIVE DigitsValue(_)
DigitsValue(s) ==
    IF s = <<>> THEN 0
    ELSE 10 * DigitsValue(SubSeq(s, 1, Len(s) - 1)) + DigitVal(s[Len(s)])

AllDigits(s) == \A k \in 1..Len(s) : s[k] \in Digits

Unsigned(s) == IF s # <<>> /\ s[1] \in {"-", "+"} THEN Tail(s) ELSE s

IsNegative(s) == s # <<>> /\ s[1] = "-"

IntOk(s) == Unsigned(s) # <<>> /\ AllDigits(Unsigned(s))

ParseInt(s) ==
    IF IsNegative(s) THEN 0 - DigitsValue(Unsigned(s))
    ELSE DigitsValue(Unsigned(s))

\* ------------------------------------------------------------------------
\* float(token) on decimal literals: optional sign, decimal digits with at
\* most one point and at least one digit.  (Exponents and the words inf and
\* nan, which float() also takes, need letters the input lines here do not
\* use in those forms.)  A float is kept as the exact decimal it denotes:
\* [m |-> mantissa, e |-> number of fractional digits], trailing zeros
\* dropped so that "1.0", "1." and "1" are the same value.
\* ------------------------------------------------------------------------
PointAt(s) == IF \E k \in 1..Len(s) : s[k] = "."
              THEN CHOOSE k \in 1..Len(s) : s[k] = "."
              ELSE 0

IntPart(s) == IF PointAt(s) = 0 THEN s ELSE SubSeq(s, 1, PointAt(s) - 1)

FracPart(s) == IF PointAt(s) = 0 THEN <<>> ELSE SubSeq(s, PointAt(s) + 1, Len(s))

FloatOk(s) ==
    LET u == Unsigned(s)
    IN  /\ AllDigits(IntPart(u))
        /\ AllDigits(FracPart(u))
        /\ Len(IntPart(u)) + Len(FracPart(u)) > 0

RECURSIVE Normalize(_, _)
Normalize(m, e) ==
    IF e > 0 /\ m % 10 = 0 THEN Normalize(m \div 10, e - 1)
    ELSE [m |-> m, e |-> e]

ParseFloat(s) ==
    LET u   == Unsigned(s)
        mag == DigitsValue(IntPart(u) \o FracPart(u))
    IN  Normalize(IF IsNegative(s) THEN 0 - mag ELSE mag, Len(FracPart(u)))

\* ------------------------------------------------------------------------
\* '{0}-{1:02d}'.format(year, i)
\* ------------------------------------------------------------------------
RECURSIVE NatToStr(_)
NatToStr(n) ==
    IF n < 10 THEN <<DigitChars[n + 1]>>
    ELSE Append(NatToStr(n \div 10), DigitChars[(n % 10) + 1])

IntToStr(n) == IF n < 0 THEN <<"-">> \o NatToStr(0 - n) ELSE NatToStr(n)

\* {:02d}: zero-padded to a width of at least two
Pad2(n) == IF Len(IntToStr(n)) < 2 THEN <<"0">> \o IntToStr(n) ELSE IntToStr(n)

\* variant: the month taken one too far (0-based index read as a count)
FormatMonthOffByOne(year, i) == IntToStr(year) \o <<"-">> \o Pad2(i + 1)

FormatMonth(year, i) == IntToStr(year) \o <<"-">> \o Pad2(i)

\* ------------------------------------------------------------------------
\* datetime.strptime(month, '%Y-%m').  %Y is \d\d\d\d, %m is
\* 1[0-2]|0[1-9]|[1-9] (first alternative that matches), and text left over
\* after the match is an error ("unconverted data remains"), as is year 0.
\* The missing fields default to day 1, 00:00:00.
\* ------------------------------------------------------------------------
\* variant: %m written as 1[0-9]|0[1-9]|[1-9]
MonthMatchWide(r) ==
    IF Len(r) >= 2 /\ r[1] = "1" /\ r[2] \in Digits THEN 2
    ELSE IF Len(r) >= 2 /\ r[1] = "0" /\ r[2] \in (Digits \ {"0"}) THEN 2
    ELSE IF Len(r) >= 1 /\ r[1] \in (Digits \ {"0"}) THEN 1
    ELSE 0

MonthMatch(r) ==
    IF Len(r) >= 2 /\ r[1] = "1" /\ r[2] \in {"0", "1", "2"} THEN 2
    ELSE IF Len(r) >= 2 /\ r[1] = "0" /\ r[2] \in (Digits \ {"0"}) THEN 2
    ELSE IF Len(r) >= 1 /\ r[1] \in (Digits \ {"0"}) THEN 1
    ELSE 0

StrpTimeOk(s) ==
    /\ Len(s) >= 5
    /\ AllDigits(SubSeq(s, 1, 4))
    /\ s[5] = "-"
    /\ MonthMatch(SubSeq(s, 6, Len(s))) > 0
    /\ MonthMatch(SubSeq(s, 6, Len(s))) = Len(s) - 5
    /\ DigitsValue(SubSeq(s, 1, 4)) >= 1

StrpTime(s) ==
    [year |-> DigitsValue(SubSeq(s, 1, 4)),
     month |-> DigitsValue(SubSeq(s, 6, Len(s))),
     day |-> 1, hour |-> 0, minute |-> 0, second |-> 0]

\* ------------------------------------------------------------------------
\* int(x.strftime("%s")): the epoch second of a naive datetime read as local
\* time.  Python 2's datetime.strftime refuses years before 1900.
\* ------------------------------------------------------------------------
StrfTimeOk(t) == t.year >= 1900

\* variant: every year of an era taken as 365 days
DaysFromCivilNoLeap(y, m, d) ==
    LET yy  == IF m <= 2 THEN y - 1 ELSE y
        era == yy \div 400
        yoe == yy - era * 400
        mp  == IF m > 2 THEN m - 3 ELSE m + 9
        doy == (153 * mp + 2) \div 5 + d - 1
        doe == yoe * 365 + doy
    IN  era * 146097 + doe - 719468

\* days from 1970-01-01 to the civil date y-m-d (proleptic Gregorian)
DaysFromCivil(y, m, d) ==
    LET yy  == IF m <= 2 THEN y - 1 ELSE y
        era == yy \div 400
        yoe == yy - era * 400
        mp  == IF m > 2 THEN m - 3 ELSE m + 9
        doy == (153 * mp + 2) \div 5 + d - 1
        doe == yoe * 365 + yoe \div 4 - yoe \div 100 + doy
    IN  era * 146097 + doe - 719468

\* off: seconds the local zone is ahead of UTC
EpochSeconds(t, off) ==
    DaysFromCivil(t.year, t.month, t.day) * 86400
        + t.hour * 3600 + t.minute * 60 + t.second - off

\* ------------------------------------------------------------------------
\* Inputs: the lines fileinput.input() can deliver, and the local zone
\* ------------------------------------------------------------------------
\* "2000  1.0<TAB>2.0 3.0 " (three months, mixed whitespace, trailing blank)
RowThree ==
    <<"2", "0", "0", "0", " ", " ", "1", ".", "0", "\t", "2", ".", "0",
      " ", "3", ".", "0", " ", "\n">>

\* "2001 2.0"
RowNext ==
    <<"2", "0", "0", "1", " ", "2", ".", "0", "\n">>

\* "2000 1.0"
RowOne ==
    <<"2", "0", "0", "0", " ", "1", ".", "0", "\n">>

\* "1999 -.5"
RowPrev ==
    <<"1", "9", "9", "9", " ", "-", ".", "5", "\n">>

\* "2001" (a year and no value)
RowYearOnly ==
    <<"2", "0", "0", "1", "\n">>

\* " " (whitespace only)
RowBlank ==
    <<" ", "\n">>

\* "2000 abc"
RowBadValue ==
    <<"2", "0", "0", "0", " ", "a", "b", "c", "\n">>

\* "20x0 1.0"
RowBadYear ==
    <<"2", "0", "x", "0", " ", "1", ".", "0", "\n">>

\* "2000 1 2 3 4 5 6 7 8 9 1 2 3 4" (thirteen values)
RowLong ==
    <<"2", "0", "0", "0", " ", "1", " ", "2", " ", "3", " ", "4", " ", "5",
      " ", "6", " ", "7", " ", "8", " ", "9", " ", "1", " ", "2", " ", "3",
      " ", "4", "\n">>

\* "1800 1.0"
RowOld ==
    <<"1", "8", "0", "0", " ", "1", ".", "0", "\n">>

Lines == {RowThree, RowNext, RowOne, RowPrev, RowYearOnly, RowBlank,
          RowBadValue, RowBadYear, RowLong, RowOld}

Inputs == UNION {[1..n -> Lines] : n \in 0..MaxRows}

\* UTC and UTC-05:00
UtcOffsets == {0, 0 - 18000}

\* ------------------------------------------------------------------------
\* State
\* ------------------------------------------------------------------------
VARIABLES
    input,      \* the lines of the input stream (never changes)
    utcoffset,  \* the local zone of the process (never changes)
    lineno,     \* number of lines fileinput has delivered
    tokens,     \* convert-frame: tokens of the current line
    year,       \* convert-frame: year of the current line
    i,          \* convert-frame: inner loop index
    ts,         \* convert-frame: list of datetimes
    ys,         \* convert-frame: list of floats
    pc,         \* convert-frame: "loop", "inner", "done", "failed"
    stdout,     \* the JSON documents convert-frame has printed
    exitcode,   \* convert-frame: -1 while running, then the exit status
    data,       \* plot-series: the parsed JSON document
    pts,        \* plot-series: ts, the datetimes of data['times']
    pys,        \* plot-series: ys, the four component series
    axis,       \* plot-series: i, the index of the axis being drawn
    ppc         \* plot-series: "idle", "loaded", "plotting", "shown", "raised"

vars == <<input, utcoffset, lineno, tokens, year, i, ts, ys, pc, stdout,
          exitcode, data, pts, pys, axis, ppc>>

convertVars == <<lineno, tokens, year, i, ts, ys, pc, stdout, exitcode>>

plotVars == <<data, pts, pys, axis, ppc>>

Init ==
    /\ input \in Inputs
    /\ utcoffset \in UtcOffsets
    /\ lineno = 0
    /\ tokens = <<>>
    /\ year = 0
    /\ i = 0
    /\ ts = <<>>
    /\ ys = <<>>
    /\ pc = "loop"
    /\ stdout = <<>>
    /\ exitcode = -1
    /\ data = <<>>
    /\ pts = <<>>
    /\ pys = <<>>
    /\ axis = 0
    /\ ppc = "idle"

\* ------------------------------------------------------------------------
\* convert-frame.py
\* ------------------------------------------------------------------------
\* an uncaught ValueError: the interpreter exits with status 1, nothing printed
Abort ==
    /\ pc' = "failed"
    /\ exitcode' = 1

\* variant: a line whose first token is no integer is skipped
ReadLineSkipsBadYear ==
    /\ pc = "loop"
    /\ lineno < Len(input)
    /\ LET toks == Split(RStrip(input[lineno + 1]))
       IN  /\ lineno' = lineno + 1
           /\ tokens' = toks
           /\ IF IntOk(toks[1])
              THEN /\ year' = ParseInt(toks[1])
                   /\ i' = 1
                   /\ pc' = "inner"
              ELSE UNCHANGED <<year, i, pc>>
    /\ UNCHANGED <<input, utcoffset, ts, ys, stdout, exitcode>>
    /\ UNCHANGED plotVars

\* variant: a line that is empty once stripped is skipped
ReadLineSkipsBlank ==
    /\ pc = "loop"
    /\ lineno < Len(input)
    /\ LET toks == Split(RStrip(input[lineno + 1]))
       IN  /\ lineno' = lineno + 1
           /\ tokens' = toks
           /\ IF RStrip(input[lineno + 1]) = <<>>
              THEN UNCHANGED <<year, i, pc, exitcode>>
              ELSE IF IntOk(toks[1])
              THEN /\ year' = ParseInt(toks[1])
                   /\ i' = 1
                   /\ pc' = "inner"
                   /\ UNCHANGED exitcode
              ELSE /\ Abort
                   /\ UNCHANGED <<year, i>>
    /\ UNCHANGED <<input, utcoffset, ts, ys, stdout>>
    /\ UNCHANGED plotVars

\* variant: a row must carry at least one value
ReadLineNeedsValue ==
    /\ pc = "loop"
    /\ lineno < Len(input)
    /\ LET toks == Split(RStrip(input[lineno + 1]))
       IN  /\ lineno' = lineno + 1
           /\ tokens' = toks
           /\ IF IntOk(toks[1]) /\ Len(toks) >= 2
              THEN /\ year' = ParseInt(toks[1])
                   /\ i' = 1
                   /\ pc' = "inner"
                   /\ UNCHANGED exitcode
              ELSE /\ Abort
                   /\ UNCHANGED <<year, i>>
    /\ UNCHANGED <<input, utcoffset, ts, ys, stdout>>
    /\ UNCHANGED plotVars

\* lines 12-14: next line, split, int(tokens[0])
ReadLine ==
    /\ pc = "loop"
    /\ lineno < Len(input)
    /\ LET toks == Split(RStrip(input[lineno + 1]))
       IN  /\ lineno' = lineno + 1
           /\ tokens' = toks
           /\ IF IntOk(toks[1])
              THEN /\ year' = ParseInt(toks[1])
                   /\ i' = 1
                   /\ pc' = "inner"
                   /\ UNCHANGED exitcode
              ELSE /\ Abort
                   /\ UNCHANGED <<year, i>>
    /\ UNCHANGED <<input, utcoffset, ts, ys, stdout>>
    /\ UNCHANGED plotVars

\* variant: the time is parsed and appended before the value is parsed
AppendSampleTsFirst ==
    /\ pc = "inner"
    /\ i < Len(tokens)
    /\ LET month == FormatMonth(year, i)
       IN  IF ~StrpTimeOk(month)
           THEN /\ Abort
                /\ UNCHANGED <<ts, ys, i>>
           ELSE IF ~FloatOk(tokens[i + 1])
           THEN /\ ts' = Append(ts, StrpTime(month))
                /\ Abort
                /\ UNCHANGED <<ys, i>>
           ELSE /\ ts' = Append(ts, StrpTime(month))
                /\ ys' = Append(ys, ParseFloat(tokens[i + 1]))
                /\ i' = i + 1
                /\ UNCHANGED <<pc, exitcode>>
    /\ UNCHANGED <<input, utcoffset, lineno, tokens, year, stdout>>
    /\ UNCHANGED plotVars

\* variant: samples are inserted at the front of the lists
AppendSamplePrepend ==
    /\ pc = "inner"
    /\ i < Len(tokens)
    /\ LET month == FormatMonth(year, i)
       IN  IF FloatOk(tokens[i + 1]) /\ StrpTimeOk(month)
           THEN /\ ts' = <<StrpTime(month)>> \o ts
                /\ ys' = <<ParseFloat(tokens[i + 1])>> \o ys
                /\ i' = i + 1
                /\ UNCHANGED <<pc, exitcode>>
           ELSE /\ Abort
                /\ UNCHANGED <<ts, ys, i>>
    /\ UNCHANGED <<input, utcoffset, lineno, tokens, year, stdout>>
    /\ UNCHANGED plotVars

\* lines 15-20: one iteration of the inner loop (tokens[i] is tokens[i + 1]
\* here, sequences being 1-based)
AppendSample ==
    /\ pc = "inner"
    /\ i < Len(tokens)
    /\ LET month == FormatMonth(year, i)
       IN  IF FloatOk(tokens[i + 1]) /\ StrpTimeOk(month)
           THEN /\ ts' = Append(ts, StrpTime(month))
                /\ ys' = Append(ys, ParseFloat(tokens[i + 1]))
                /\ i' = i + 1
                /\ UNCHANGED <<pc, exitcode>>
           ELSE /\ Abort
                /\ UNCHANGED <<ts, ys, i>>
    /\ UNCHANGED <<input, utcoffset, lineno, tokens, year, stdout>>
    /\ UNCHANGED plotVars

\* lines 22-25: the output object
Output ==
    [ts |-> [j \in 1..Len(ts) |-> EpochSeconds(ts[j], utcoffset)],
     ys |-> ys]

\* variant: the print sits inside the outer loop
EndRowPrints ==
    /\ pc = "inner"
    /\ i >= Len(tokens)
    /\ IF \A j \in 1..Len(ts) : StrfTimeOk(ts[j])
       THEN /\ stdout' = Append(stdout, Output)
            /\ pc' = "loop"
            /\ UNCHANGED exitcode
       ELSE /\ Abort
            /\ UNCHANGED stdout
    /\ UNCHANGED <<input, utcoffset, lineno, tokens, year, i, ts, ys>>
    /\ UNCHANGED plotVars

\* line 15: xrange(1, len(tokens)) is exhausted, back to the outer loop
EndRow ==
    /\ pc = "inner"
    /\ i >= Len(tokens)
    /\ pc' = "loop"
    /\ UNCHANGED <<input, utcoffset, lineno, tokens, year, i, ts, ys, stdout,
                   exitcode>>
    /\ UNCHANGED plotVars

\* lines 22-27: input exhausted; build the output object and print it
Emit ==
    /\ pc = "loop"
    /\ lineno = Len(input)
    /\ IF \A j \in 1..Len(ts) : StrfTimeOk(ts[j])
       THEN /\ stdout' = Append(stdout, Output)
            /\ pc' = "done"
            /\ exitcode' = 0
       ELSE /\ Abort
            /\ UNCHANGED stdout
    /\ UNCHANGED <<input, utcoffset, lineno, tokens, year, i, ts, ys>>
    /\ UNCHANGED plotVars

\* ------------------------------------------------------------------------
\* plot-series.py
\* ------------------------------------------------------------------------
DropLast(s) == IF s = <<>> THEN s ELSE SubSeq(s, 1, Len(s) - 1)

\* documents in plot-series' own format built over a converted series: the
\* components have the length of 'times' or are one sample short
DecompositionDocs(out) ==
    {[series |-> out.ys, trend |-> t, seasonal |-> s, remainder |-> out.ys,
      times |-> out.ts] :
        t \in {out.ys, DropLast(out.ys)}, s \in {out.ys, DropLast(out.ys)}}

\* the files argv[1] can name once convert-frame has printed its document
Files == {stdout[1]} \cup DecompositionDocs(stdout[1])

PlotFieldNames == {"series", "trend", "seasonal", "remainder", "times"}

\* lines 10-11: open(sys.argv[1]), json.loads
PlotLoad ==
    /\ ppc = "idle"
    /\ pc = "done"
    /\ \E doc \in Files : data' = doc
    /\ ppc' = "loaded"
    /\ UNCHANGED <<pts, pys, axis>>
    /\ UNCHANGED <<input, utcoffset>>
    /\ UNCHANGED convertVars

\* lines 13-22: data['series'] ... data['times'] (KeyError when absent), i = 0
PlotFields ==
    /\ ppc = "loaded"
    /\ IF PlotFieldNames \subseteq DOMAIN data
       THEN /\ pys' = <<data["series"], data["trend"], data["seasonal"],
                        data["remainder"]>>
            /\ pts' = data["times"]
            /\ axis' = 0
            /\ ppc' = "plotting"
       ELSE /\ ppc' = "raised"
            /\ UNCHANGED <<pts, pys, axis>>
    /\ UNCHANGED data
    /\ UNCHANGED <<input, utcoffset>>
    /\ UNCHANGED convertVars

\* variant: the last time is left out of the plot (ts[:-1])
PlotAxisDropsLast ==
    /\ ppc = "plotting"
    /\ axis < 4
    /\ IF Len(DropLast(pts)) = Len(pys[axis + 1])
       THEN /\ axis' = axis + 1
            /\ UNCHANGED ppc
       ELSE /\ ppc' = "raised"
            /\ UNCHANGED axis
    /\ UNCHANGED <<data, pts, pys>>
    /\ UNCHANGED <<input, utcoffset>>
    /\ UNCHANGED convertVars

\* lines 23-31: ax.plot_date(ts, ys[i], '-') on the next of the four axes;
\* plot_date raises when x and y differ in length
PlotAxis ==
    /\ ppc = "plotting"
    /\ axis < 4
    /\ IF Len(pts) = Len(pys[axis + 1])
       THEN /\ axis' = axis + 1
            /\ UNCHANGED ppc
       ELSE /\ ppc' = "raised"
            /\ UNCHANGED axis
    /\ UNCHANGED <<data, pts, pys>>
    /\ UNCHANGED <<input, utcoffset>>
    /\ UNCHANGED convertVars

\* lines 33-34: all axes drawn, show the figure
PlotShow ==
    /\ ppc = "plotting"
    /\ axis = 4
    /\ ppc' = "shown"
    /\ UNCHANGED <<data, pts, pys, axis>>
    /\ UNCHANGED <<input, utcoffset>>
    /\ UNCHANGED convertVars

\* ------------------------------------------------------------------------
\* Specification
\* ------------------------------------------------------------------------
Next ==
    \/ ReadLine
    \/ AppendSample
    \/ EndRow
    \/ Emit
    \/ PlotLoad
    \/ PlotFields
    \/ PlotAxis
    \/ PlotShow

Spec == Init /\ [][Next]_vars

\* ========================================================================
\* Properties
\* ========================================================================

\* ------------------------------------------------------------------------
\* Vocabulary of the properties, defined on the input text itself
\* ------------------------------------------------------------------------
\* number of maximal runs of non-whitespace characters in a line
TokenCount(line) ==
    Cardinality({k \in 1..Len(line) :
        /\ line[k] \notin Whitespace
        /\ (k = 1 \/ line[k - 1] \in Whitespace)})

\* number of tokens after the year, tabulated per line
ValueCounts == [line \in Lines |-> TokenCount(line) - 1]

ValueCount(line) == ValueCounts[line]

RECURSIVE TotalValues(_, _)
TotalValues(rows, n) ==
    IF n = 0 THEN 0 ELSE TotalValues(rows, n - 1) + ValueCount(rows[n])

IsBlank(line) == \A k \in 1..Len(line) : line[k] \in Whitespace

\* the tokens of each line, tabulated
TokensOf == [line \in Lines |-> Split(RStrip(line))]

YearToken(line) == TokensOf[line][1]

YearOf(line) == ParseInt(YearToken(line))

ValueToken(line, k) == TokensOf[line][k + 1]

\* a year token that is no integer, or a value token that is no number
IsMalformed(line) ==
    /\ ~IsBlank(line)
    /\ \/ ~IntOk(YearToken(line))
       \/ \E k \in 1..ValueCount(line) : ~FloatOk(ValueToken(line, k))

IsYearOnly(line) == TokenCount(line) = 1 /\ IntOk(YearToken(line))

\* the lines of each kind, and the rows of the input that hold one
BlankLines == {line \in Lines : IsBlank(line)}

MalformedLines == {line \in Lines : IsMalformed(line)}

LongLines == {line \in Lines : ValueCount(line) > 12}

YearOnlyLines == {line \in Lines : IsYearOnly(line)}

BlankRows == {r \in 1..Len(input) : input[r] \in BlankLines}

MalformedRows == {r \in 1..Len(input) : input[r] \in MalformedLines}

LongRows == {r \in 1..Len(input) : input[r] \in LongLines}

First(rows) == CHOOSE r \in rows : \A q \in rows : r <= q

\* the calendar, by counting days year by year and month by month
IsLeap(y) == (y % 4 = 0 /\ y % 100 # 0) \/ y % 400 = 0

YearLength(y) == IF IsLeap(y) THEN 366 ELSE 365

MonthLength(y, m) ==
    IF m = 2 THEN (IF IsLeap(y) THEN 29 ELSE 28)
    ELSE IF m \in {4, 6, 9, 11} THEN 30
    ELSE 31

RECURSIVE DaysToYear(_)
DaysToYear(y) ==
    IF y = 1970 THEN 0
    ELSE IF y > 1970 THEN DaysToYear(y - 1) + YearLength(y - 1)
    ELSE DaysToYear(y + 1) - YearLength(y)

RECURSIVE DaysToMonth(_, _)
DaysToMonth(y, m) ==
    IF m = 1 THEN 0 ELSE DaysToMonth(y, m - 1) + MonthLength(y, m - 1)

\* epoch second of local midnight on the first day of month m of year y
FirstInstant(y, m) ==
    (DaysToYear(y) + DaysToMonth(y, m)) * (24 * 60 * 60) - utcoffset

\* the samples of a sequence of rows in row-major order
RowSamples(line) ==
    [k \in 1..ValueCount(line) |->
        [t |-> FirstInstant(YearOf(line), k),
         v |-> ParseFloat(ValueToken(line, k))]]

RECURSIVE Samples(_)
Samples(rows) ==
    IF rows = <<>> THEN <<>>
    ELSE RowSamples(Head(rows)) \o Samples(Tail(rows))

ExpectedOutput(rows) ==
    LET e == Samples(rows)
    IN  [ts |-> [j \in 1..Len(e) |-> e[j].t],
         ys |-> [j \in 1..Len(e) |-> e[j].v]]

NonDecreasing(s) == \A j \in 1..(Len(s) - 1) : s[j] <= s[j + 1]

\* ------------------------------------------------------------------------
\* C1.  ts and ys have the same length in every state of the run, equal to
\* the number of value tokens consumed so far, and the printed document
\* carries exactly T entries in 'ts' and in 'ys', T being the number of
\* value tokens of the whole input.
\* ------------------------------------------------------------------------
C1_EqualLengths ==
    /\ Len(ts) = Len(ys)
    /\ pc = "loop" => Len(ts) = TotalValues(input, lineno)
    /\ pc = "inner" => Len(ts) = TotalValues(input, lineno - 1) + (i - 1)
    /\ stdout # <<>> =>
          /\ Len(stdout[1].ts) = TotalValues(input, Len(input))
          /\ Len(stdout[1].ys) = TotalValues(input, Len(input))

C1_Witness ==
    /\ pc = "done"
    /\ Len(input) >= 2
    /\ Len(stdout[1].ts) >= 4
    /\ Len(stdout[1].ys) >= 4

\* ------------------------------------------------------------------------
\* C2.  The printed document lists the samples in row-major input order,
\* positionally paired: entry j of 'ts' is the first instant of month k of
\* year y and entry j of 'ys' is the parsed j-th value token, which sits at
\* position k of a row of year y.  The row "2000 1.0 2.0 3.0" alone gives
\* the first instants of January, February and March 2000 and 1.0, 2.0, 3.0.
\* ------------------------------------------------------------------------
C2_RowMajorPairs ==
    pc = "done" =>
        /\ stdout[1] = ExpectedOutput(input)
        /\ input = <<RowThree>> =>
              /\ stdout[1].ts = <<946684800 - utcoffset,
                                  949363200 - utcoffset,
                                  951868800 - utcoffset>>
              /\ stdout[1].ys = <<[m |-> 1, e |-> 0], [m |-> 2, e |-> 0],
                                  [m |-> 3, e |-> 0]>>

C2_Witness ==
    /\ pc = "done"
    /\ Len(input) >= 2
    /\ input[1] = RowThree
    /\ ValueCount(input[2]) >= 1
    /\ Len(stdout[1].ts) >= 4

\* ------------------------------------------------------------------------
\* C3 as stated.  The printed 'ts' is non-decreasing if and only if the rows
\* are given in non-decreasing year order.
\* ------------------------------------------------------------------------
YearsNonDecreasing ==
    \A r \in 1..(Len(input) - 1) : YearOf(input[r]) <= YearOf(input[r + 1])

C3_Original ==
    pc = "done" => (NonDecreasing(stdout[1].ts) <=> YearsNonDecreasing)

\* ------------------------------------------------------------------------
\* C3 as amended.  The printed 'ts' is non-decreasing if and only if, among
\* the rows that carry at least one value, every row's year is greater than
\* the year of the row before it, or equal to it when the row before it
\* carries exactly one value.
\* ------------------------------------------------------------------------
HasValues(line) == ValueCount(line) >= 1

ValueRows == SelectSeq(input, HasValues)

C3_Amended ==
    pc = "done" =>
        (NonDecreasing(stdout[1].ts) <=>
            \A r \in 1..(Len(ValueRows) - 1) :
                \/ YearOf(ValueRows[r]) < YearOf(ValueRows[r + 1])
                \/ /\ YearOf(ValueRows[r]) = YearOf(ValueRows[r + 1])
                   /\ ValueCount(ValueRows[r]) = 1)

C3_Witness ==
    /\ pc = "done"
    /\ ~YearsNonDecreasing
    /\ Len(stdout[1].ts) >= 2
    /\ NonDecreasing(stdout[1].ts)

\* ------------------------------------------------------------------------
\* C4.  When some row carries a malformed token (a year token that is no
\* integer, a value token that is no number), whatever rows precede it, the
\* run never gets past that row, never prints anything and never ends with
\* status 0; where it stops, the exit status is non-zero.
\* ------------------------------------------------------------------------
C4_MalformedAborts ==
    MalformedRows # {} =>
        /\ stdout = <<>>
        /\ pc # "done"
        /\ exitcode # 0
        /\ lineno <= First(MalformedRows)
        /\ lineno = First(MalformedRows) => pc \in {"inner", "failed"}
        /\ pc = "failed" => exitcode = 1

C4_Witness ==
    /\ pc = "failed"
    /\ exitcode = 1
    /\ stdout = <<>>
    /\ lineno >= 2
    /\ lineno \in MalformedRows
    /\ Len(ts) >= 1

\* ------------------------------------------------------------------------
\* C5.  A row with more than 12 value tokens is fatal and nothing is
\* printed; at no point does ts hold a month outside 1..12, and the samples
\* taken from the current row all lie in that row's year, month k for the
\* k-th value: the 13th value is never mapped into the following year.
\* ------------------------------------------------------------------------
C5_LongRowAborts ==
    /\ LongRows # {} => (stdout = <<>> /\ pc # "done" /\ exitcode # 0)
    /\ \A j \in 1..Len(ts) : ts[j].month \in 1..12
    /\ pc = "inner" =>
          /\ i <= 13
          /\ \A k \in 1..(i - 1) :
                /\ ts[Len(ts) - (i - 1) + k].year = YearOf(input[lineno])
                /\ ts[Len(ts) - (i - 1) + k].month = k

C5_Witness ==
    /\ pc = "failed"
    /\ exitcode = 1
    /\ stdout = <<>>
    /\ i = 13
    /\ Len(tokens) > 13
    /\ FloatOk(tokens[14])

\* ------------------------------------------------------------------------
\* C6.  A line without any token (empty or whitespace only; also a trailing
\* one after valid rows) is fatal: the run stops at that line with a
\* non-zero status and prints nothing; the line is never skipped and never
\* taken for a row without values.
\* ------------------------------------------------------------------------
C6_BlankLineAborts ==
    BlankRows # {} =>
        /\ stdout = <<>>
        /\ pc # "done"
        /\ exitcode # 0
        /\ lineno <= First(BlankRows)
        /\ lineno = First(BlankRows) => (pc = "failed" /\ exitcode = 1)

C6_Witness ==
    /\ pc = "failed"
    /\ exitcode = 1
    /\ stdout = <<>>
    /\ lineno >= 2
    /\ lineno = Len(input)
    /\ IsBlank(input[lineno])
    /\ BlankRows = {lineno}
    /\ Len(ts) >= 1

\* ------------------------------------------------------------------------
\* C7.  Nothing is written before every input line has been consumed, and a
\* successful run has written exactly one document, the full series, at
\* its end.
\* ------------------------------------------------------------------------
C7_OutputOnceAtEnd ==
    /\ stdout # <<>> =>
          /\ lineno = Len(input)
          /\ pc = "done"
          /\ Len(stdout) = 1
          /\ Len(stdout[1].ts) = Len(ts)
          /\ stdout[1].ys = ys
          /\ Len(ts) = TotalValues(input, Len(input))
    /\ pc = "done" => (Len(stdout) = 1 /\ exitcode = 0)

C7_Witness ==
    /\ pc = "done"
    /\ Len(input) >= 2
    /\ Len(stdout) = 1
    /\ Len(stdout[1].ts) >= 2

\* ------------------------------------------------------------------------
\* C8 as stated.  Given the document the normalizer printed (equal-length
\* 'ts' and 'ys'), plot-series does not raise.
\* ------------------------------------------------------------------------
C8_Original ==
    (/\ ppc # "idle"
     /\ data = stdout[1]
     /\ Len(data.ts) = Len(data.ys)) => ppc # "raised"

\* ------------------------------------------------------------------------
\* C8 as amended.  Given a document with the fields series, trend,
\* seasonal, remainder and times, all of one length, plot-series does not
\* raise and goes on to plot every component against times; given a
\* document that lacks one of these fields (the normalizer's output, which
\* has 'ts' and 'ys' only) it raises at the field access and plots nothing.
\* ------------------------------------------------------------------------
HasPlotFields(doc) == PlotFieldNames \subseteq DOMAIN doc

EqualLengthFields(doc) ==
    \A f \in PlotFieldNames : Len(doc[f]) = Len(doc["times"])

C8_Amended ==
    ppc # "idle" =>
        /\ (HasPlotFields(data) /\ EqualLengthFields(data)) => ppc # "raised"
        /\ ~HasPlotFields(data) => ppc \in {"loaded", "raised"}
        /\ ppc = "shown" =>
              /\ HasPlotFields(data)
              /\ EqualLengthFields(data)
              /\ axis = 4
              /\ pts = data["times"]
              /\ pys = <<data["series"], data["trend"], data["seasonal"],
                         data["remainder"]>>

C8_Witness ==
    /\ ppc = "shown"
    /\ HasPlotFields(data)
    /\ EqualLengthFields(data)
    /\ Len(data["times"]) >= 2

\* ------------------------------------------------------------------------
\* C9.  Two consecutive rows of years y and y + 1 with one value each give
\* two consecutive timestamps exactly one calendar year apart: the seconds
\* of year y, 366 days when y is a leap year and 365 otherwise; "2000 1.0"
\* then "2001 2.0" gives a 'ts' of length 2 whose entries are 366 days
\* apart, and ys = [1.0, 2.0].
\* ------------------------------------------------------------------------
C9_OneYearApart ==
    pc = "done" =>
        /\ \A r \in 1..(Len(input) - 1) :
              (/\ ValueCount(input[r]) = 1
               /\ ValueCount(input[r + 1]) = 1
               /\ YearOf(input[r + 1]) = YearOf(input[r]) + 1) =>
                  LET j == TotalValues(input, r)
                  IN  /\ stdout[1].ts[j + 1] - stdout[1].ts[j] =
                            YearLength(YearOf(input[r])) * (24 * 60 * 60)
                      /\ stdout[1].ys[j] = ParseFloat(ValueToken(input[r], 1))
                      /\ stdout[1].ys[j + 1] =
                            ParseFloat(ValueToken(input[r + 1], 1))
        /\ input = <<RowOne, RowNext>> =>
              /\ Len(stdout[1].ts) = 2
              /\ stdout[1].ts[2] - stdout[1].ts[1] = 31622400
              /\ stdout[1].ys = <<[m |-> 1, e |-> 0], [m |-> 2, e |-> 0]>>

C9_Witness ==
    /\ pc = "done"
    /\ input = <<RowOne, RowNext>>
    /\ Len(stdout[1].ts) = 2

\* ------------------------------------------------------------------------
\* C10.  A row that is a valid year token and nothing else is read without
\* error and leaves ts and ys as they are, through the read and through the
\* end of the row; the document printed at the end is the one the input
\* without such rows gives.
\* ------------------------------------------------------------------------
YearOnlyNext ==
    /\ pc = "loop"
    /\ lineno < Len(input)
    /\ input[lineno + 1] \in YearOnlyLines

YearOnlyCurrent ==
    /\ pc = "inner"
    /\ input[lineno] \in YearOnlyLines

NotYearOnly(line) == line \notin YearOnlyLines

C10_YearOnlyRowIsNeutral ==
    [][/\ YearOnlyNext =>
             (ts' = ts /\ ys' = ys /\ pc' = "inner" /\ exitcode' = exitcode)
       /\ YearOnlyCurrent =>
             (ts' = ts /\ ys' = ys /\ pc' = "loop" /\ exitcode' = exitcode)
       /\ (pc # "done" /\ pc' = "done") =>
             stdout' = <<ExpectedOutput(SelectSeq(input, NotYearOnly))>>]_vars

C10_Witness ==
    /\ pc = "done"
    /\ \E r \in 2..(Len(input) - 1) :
          /\ input[r] \in YearOnlyLines
          /\ ValueCount(input[r - 1]) >= 1
          /\ ValueCount(input[r + 1]) >= 1
    /\ Len(stdout[1].ts) >= 2

====
